---------------------------- MODULE Spec2Model ----------------------------
(***************************************************************************)
(* Working-time calculator (src/working_time.py, class                     *)
(* WorkingTimeCalculator).                                                 *)
(*                                                                         *)
(* Representation.                                                         *)
(*   - A date is an integer 0..LastDate; LastDate stands for date.max      *)
(*     (9999-12-31, a Friday), and the modelled dates are the last NumDays *)
(*     dates of the calendar.  Adding a timedelta that leaves the calendar *)
(*     raises OverflowError, exactly as datetime does.                     *)
(*   - A datetime is date * MinutesPerDay + minute of the day; a time is   *)
(*     a minute of the day.                                                *)
(*   - A float number of hours is kept exactly, in units of 1/60 hour      *)
(*     (that is, in minutes): 90 stands for 1.5.  Binary rounding of the   *)
(*     float arithmetic is not represented.                                *)
(*   - A str is a sequence of Unicode code points.                         *)
(*   - None is NoneDt for an absent datetime, NoneVal for an absent float, *)
(*     and the empty tuple for an absent (start, end) pair.                *)
(***************************************************************************)
EXTENDS Integers, Sequences, FiniteSets, TLC

\* ------------------------------------------------------------------ bounds
\* Number of modelled calendar dates (the last NumDays dates before and
\* including date.max).
NumDays == 8
\* Longest free-form name over NameAlphabet given to normalize_city_name.
MaxNameLen == 2

\* ---------------------------------------------------------------- calendar
MinutesPerDay == 24 * 60
LastDate == NumDays - 1
Dates == 0..LastDate

\* datetime.time(h, m)
time(h, m) == h * 60 + m
\* datetime.combine(d, t)
combine(d, t) == d * MinutesPerDay + t
\* dt.date()
date(dt) == dt \div MinutesPerDay
\* dt.weekday(): 0 = Monday .. 6 = Sunday; date.max is a Friday (4).
weekday(dt) == (4 + 7 * NumDays - (LastDate - date(dt))) % 7

\* "not x" for an Optional[datetime]
NoneDt == -1

\* Outcomes of an operation that returns Optional[float] or raises.
Float(v) == [kind |-> "float", val |-> v]
NoneVal == [kind |-> "None", val |-> 0]
OverflowError == [kind |-> "OverflowError", val |-> 0]

Max(a, b) == IF a >= b THEN a ELSE b
Min(a, b) == IF a <= b THEN a ELSE b

\* ----------------------------------------------------------------- strings
\* str.lower() on the code points used here: Latin A-Z, Cyrillic A-YA and IO.
LowerChar(c) ==
    IF c >= 65 /\ c <= 90 THEN c + 32
    ELSE IF c >= 1040 /\ c <= 1071 THEN c + 32
    ELSE IF c = 1025 THEN 1105
    ELSE c
lower(s) == [i \in 1..Len(s) |-> LowerChar(s[i])]

\* str.isspace() on single code points (ASCII and Latin-1 range).
IsSpace(c) == c \in {9, 10, 11, 12, 13, 28, 29, 30, 31, 32, 133, 160}

\* Mutant of strip: drops at most one whitespace character at each end.
strip_OneEachEnd(s) ==
    LET a == IF Len(s) > 0 /\ IsSpace(s[1]) THEN Tail(s) ELSE s IN
    IF Len(a) > 0 /\ IsSpace(a[Len(a)]) THEN SubSeq(a, 1, Len(a) - 1) ELSE a

\* str.strip(): drop leading and trailing whitespace.
strip(s) ==
    LET keep == {i \in 1..Len(s) : ~IsSpace(s[i])} IN
    IF keep = {} THEN <<>>
    ELSE LET lo == CHOOSE i \in keep : \A j \in keep : i <= j
             hi == CHOOSE i \in keep : \A j \in keep : i >= j
         IN SubSeq(s, lo, hi)

\* "a in b" for two str
IsSubstr(a, b) ==
    \E i \in 0..(Len(b) - Len(a)) : SubSeq(b, i + 1, i + Len(a)) = a

\* City keys, as code points.
Moskva == <<1084, 1086, 1089, 1082, 1074, 1072>>
NizhnyNovgorod ==
    <<1085, 1080, 1078, 1085, 1080, 1081, 32,
      1085, 1086, 1074, 1075, 1086, 1088, 1086, 1076>>
Sarov == <<1089, 1072, 1088, 1086, 1074>>
Novouralsk ==
    <<1085, 1086, 1074, 1086, 1091, 1088, 1072, 1083, 1100, 1089, 1082>>
Krasnokamensk ==
    <<1082, 1088, 1072, 1089, 1085, 1086, 1082, 1072, 1084, 1077, 1085,
      1089, 1082>>

\* The keys of CITY_SCHEDULES in insertion order (dict iteration order).
CITY_KEYS == <<Moskva, NizhnyNovgorod, Sarov, Novouralsk, Krasnokamensk>>
CityKeySet == {CITY_KEYS[k] : k \in 1..Len(CITY_KEYS)}

CITY_SCHEDULES ==
    [key \in CityKeySet |->
        IF key = Novouralsk
        THEN [weekdays |-> <<time(6, 0), time(15, 0)>>,
              friday |-> <<time(6, 0), time(15, 0)>>]
        ELSE IF key = Krasnokamensk
        THEN [weekdays |-> <<time(3, 0), time(12, 0)>>,
              friday |-> <<time(3, 0), time(11, 45)>>]
        ELSE [weekdays |-> <<time(9, 0), time(18, 0)>>,
              friday |-> <<time(9, 0), time(16, 45)>>]]

\* Mutant of DEFAULT_SCHEDULE: the Friday window copied from the Mon-Thu one.
DEFAULT_SCHEDULE_FridayAsWeekdays ==
    [weekdays |-> <<time(9, 0), time(18, 0)>>,
     friday |-> <<time(9, 0), time(18, 0)>>]

DEFAULT_SCHEDULE ==
    [weekdays |-> <<time(9, 0), time(18, 0)>>,
     friday |-> <<time(9, 0), time(16, 45)>>]

\* Mutant of ScanContainment: the last matching key of the table wins.
RECURSIVE ScanContainment_LastMatch(_, _)
ScanContainment_LastMatch(city_lower, k) ==
    IF k > Len(CITY_KEYS) THEN city_lower
    ELSE LET later == ScanContainment_LastMatch(city_lower, k + 1) IN
         IF later # city_lower THEN later
         ELSE IF IsSubstr(CITY_KEYS[k], city_lower) \/ IsSubstr(city_lower, CITY_KEYS[k])
              THEN CITY_KEYS[k]
              ELSE city_lower

\* The second loop of normalize_city_name from key number k on: the first key
\* that is contained in city_lower or contains it, else city_lower itself.
RECURSIVE ScanContainment(_, _)
ScanContainment(city_lower, k) ==
    IF k > Len(CITY_KEYS) THEN city_lower
    ELSE IF IsSubstr(CITY_KEYS[k], city_lower) \/ IsSubstr(city_lower, CITY_KEYS[k])
         THEN CITY_KEYS[k]
         ELSE ScanContainment(city_lower, k + 1)

\* The first loop of normalize_city_name from key number k on; falls through
\* to the second loop.
RECURSIVE ScanExact(_, _)
ScanExact(city_lower, k) ==
    IF k > Len(CITY_KEYS) THEN ScanContainment(city_lower, 1)
    ELSE IF city_lower = CITY_KEYS[k] THEN CITY_KEYS[k]
         ELSE ScanExact(city_lower, k + 1)

normalize_city_name(city) ==
    IF city = <<>> THEN <<>>
    ELSE ScanExact(strip(lower(city)), 1)

\* Mutant of is_working_day: Saturday counted as a working day.
is_working_day_WithSaturday(dt) == weekday(dt) < 6

is_working_day(dt) == weekday(dt) < 5

get_working_hours(dt, city) ==
    LET city_normalized == normalize_city_name(city)
        schedule == IF city_normalized \in CityKeySet
                    THEN CITY_SCHEDULES[city_normalized]
                    ELSE DEFAULT_SCHEDULE
    IN IF weekday(dt) = 4 THEN schedule.friday ELSE schedule.weekdays


\* ------------------------------------------------- calculate_working_time
\* datetime.combine(current_date + timedelta(days=k), time(0, 0)); the date
\* addition raises OverflowError when it passes date.max.
NextMidnight(current_date, k) ==
    IF current_date + k > LastDate
    THEN [raised |-> TRUE, dt |-> 0]
    ELSE [raised |-> FALSE, dt |-> combine(current_date + k, time(0, 0))]

\* The branch taken for a day that is not a working day: the new cursor.
SkipNonWorkingDay(current_dt) ==
    IF weekday(current_dt) = 5 THEN NextMidnight(date(current_dt), 2)
    ELSE IF weekday(current_dt) = 6 THEN NextMidnight(date(current_dt), 1)
    ELSE IF current_dt + MinutesPerDay >= combine(LastDate + 1, time(0, 0))
         THEN [raised |-> TRUE, dt |-> 0]
         ELSE [raised |-> FALSE, dt |-> current_dt + MinutesPerDay]

\* What one working day adds to total_hours, given its (work_start, work_end).
DayHours(current_dt, work_hours, start_dt, end_dt) ==
    LET current_date == date(current_dt)
        work_start == work_hours[1]
        work_end == work_hours[2]
        day_start == IF current_date = date(start_dt)
                     THEN Max(current_dt, combine(current_date, work_start))
                     ELSE combine(current_date, work_start)
        day_end == IF current_date = date(end_dt)
                   THEN Min(end_dt, combine(current_date, work_end))
                   ELSE combine(current_date, work_end)
    IN IF day_start < day_end THEN Max(0, day_end - day_start) ELSE 0

\* One pass through the body of the while loop.
LoopBody(current_dt, total_hours, start_dt, end_dt, city) ==
    IF ~is_working_day(current_dt)
    THEN LET nxt == SkipNonWorkingDay(current_dt) IN
         [raised |-> nxt.raised, current_dt |-> nxt.dt, total_hours |-> total_hours]
    ELSE LET work_hours == get_working_hours(current_dt, city)
             nxt == NextMidnight(date(current_dt), 1)
         IN IF work_hours = <<>>
            THEN [raised |-> nxt.raised, current_dt |-> nxt.dt,
                  total_hours |-> total_hours]
            ELSE [raised |-> nxt.raised, current_dt |-> nxt.dt,
                  total_hours |-> total_hours
                      + DayHours(current_dt, work_hours, start_dt, end_dt)]

RECURSIVE WhileLoop(_, _, _, _, _)
WhileLoop(current_dt, total_hours, start_dt, end_dt, city) ==
    IF ~(current_dt < end_dt) THEN Float(total_hours)
    ELSE LET b == LoopBody(current_dt, total_hours, start_dt, end_dt, city) IN
         IF b.raised THEN OverflowError
         ELSE WhileLoop(b.current_dt, b.total_hours, start_dt, end_dt, city)

calculate_working_time(start_dt, end_dt, city) ==
    IF start_dt >= end_dt THEN Float(0)
    ELSE WhileLoop(start_dt, 0, start_dt, end_dt, city)

\* --------------------------------------------------------- derived metrics
\* Mutant of calculate_reaction_time: the comparison turned around.
calculate_reaction_time_Reversed(assigned_dt, start_dt, city) ==
    IF assigned_dt = NoneDt \/ start_dt = NoneDt THEN NoneVal
    ELSE IF start_dt >= assigned_dt THEN Float(0)
    ELSE calculate_working_time(assigned_dt, start_dt, city)

calculate_reaction_time(assigned_dt, start_dt, city) ==
    IF assigned_dt = NoneDt \/ start_dt = NoneDt THEN NoneVal
    ELSE IF start_dt <= assigned_dt THEN Float(0)
    ELSE calculate_working_time(assigned_dt, start_dt, city)

calculate_resolution_time(start_dt, end_dt, city) ==
    IF start_dt = NoneDt \/ end_dt = NoneDt THEN NoneVal
    ELSE IF end_dt <= start_dt THEN Float(0)
    ELSE calculate_working_time(start_dt, end_dt, city)

calculate_total_time(assigned_dt, end_dt, city) ==
    IF assigned_dt = NoneDt \/ end_dt = NoneDt THEN NoneVal
    ELSE IF end_dt <= assigned_dt THEN Float(0)
    ELSE calculate_working_time(assigned_dt, end_dt, city)

\* ------------------------------------------------------------------ inputs
\* Times of day the instants are drawn from: midnight, inside one city's
\* window only, inside every window, between a Friday close and a Mon-Thu
\* close, after every close, and the window edges themselves.
TimesOfDay ==
    {time(0, 0), time(5, 0), time(9, 0), time(10, 0), time(11, 50),
     time(17, 0), time(18, 0), time(23, 0)}
Instants == {combine(d, t) : d \in Dates, t \in TimesOfDay}

Kazan == <<1050, 1072, 1079, 1072, 1085, 1100>>
MoskvaCapital == <<1052>> \o Tail(Moskva)
\* Cities given to the time operations: a configured key with a capital
\* letter, two keys with their own windows (one padded), an unknown city.
Cities == {MoskvaCapital, Novouralsk \o <<32>>, Krasnokamensk, Kazan}

\* Names given to normalize_city_name.
NameAlphabet == {32, 1053, 1086, 1074, 1082, 122}
RECURSIVE SeqsUpTo(_)
SeqsUpTo(n) ==
    IF n = 0 THEN {<<>>}
    ELSE LET shorter == SeqsUpTo(n - 1) IN
         shorter \cup {Append(s, c) : s \in {t \in shorter : Len(t) = n - 1},
                                      c \in NameAlphabet}
Pads == {<<>>, <<32>>, <<122>>, <<9, 32>>}
upper(s) == [i \in 1..Len(s) |->
                IF s[i] >= 1072 /\ s[i] <= 1103 THEN s[i] - 32 ELSE s[i]]
Names ==
    SeqsUpTo(MaxNameLen)
    \cup {pre \o key \o post : pre \in Pads, post \in Pads, key \in CityKeySet}
    \cup {pre \o upper(key) \o post : pre \in Pads, post \in Pads, key \in CityKeySet}
    \cup {Sarov \o <<32>> \o Moskva, Krasnokamensk \o <<44, 32>> \o Novouralsk,
          SubSeq(NizhnyNovgorod, 8, 10), SubSeq(Novouralsk, 1, 5)}
    \cup {pre \o Kazan \o post : pre \in Pads, post \in Pads}
    \cup Cities

\* ------------------------------------------------------------------- state
VARIABLES
    op,           \* the operation called ("idle" before the call)
    pc,           \* where the call stands
    city,         \* the str argument
    start_dt,     \* first datetime argument (NoneDt when absent)
    end_dt,       \* second datetime argument (NoneDt when absent)
    current_dt,   \* calculate_working_time: the cursor
    total_hours,  \* calculate_working_time: the accumulator
    work_hours,   \* calculate_working_time: the looked-up (start, end)
    result,       \* the Optional[float] returned, or the error raised
    key_result,   \* the str returned by normalize_city_name
    hours_result  \* the tuple returned by get_working_hours

vars == <<op, pc, city, start_dt, end_dt, current_dt, total_hours, work_hours,
          result, key_result, hours_result>>

Init ==
    /\ op = "idle"
    /\ pc = "idle"
    /\ city = <<>>
    /\ start_dt = NoneDt
    /\ end_dt = NoneDt
    /\ current_dt = 0
    /\ total_hours = 0
    /\ work_hours = <<>>
    /\ result = NoneVal
    /\ key_result = <<>>
    /\ hours_result = <<>>

\* normalize_city_name(name)
CallNormalizeCityName ==
    /\ pc = "idle"
    /\ \E name \in Names :
        /\ city' = name
        /\ key_result' = normalize_city_name(name)
    /\ op' = "normalize_city_name"
    /\ pc' = "done"
    /\ UNCHANGED <<start_dt, end_dt, current_dt, total_hours, work_hours,
                   result, hours_result>>

\* get_working_hours(dt, c)
CallGetWorkingHours ==
    /\ pc = "idle"
    /\ \E dt \in Instants, c \in Cities :
        /\ start_dt' = dt
        /\ city' = c
        /\ hours_result' = get_working_hours(dt, c)
    /\ op' = "get_working_hours"
    /\ pc' = "done"
    /\ UNCHANGED <<end_dt, current_dt, total_hours, work_hours, result,
                   key_result>>

\* calculate_working_time(s, e, c): lines 92-96
CallCalculateWorkingTime ==
    /\ pc = "idle"
    /\ \E s \in Instants, e \in Instants, c \in Cities :
        /\ start_dt' = s
        /\ end_dt' = e
        /\ city' = c
        /\ current_dt' = s
        /\ pc' = IF s >= e THEN "done" ELSE "while"
    /\ op' = "calculate_working_time"
    /\ total_hours' = 0
    /\ result' = Float(0)
    /\ UNCHANGED <<work_hours, key_result, hours_result>>

\* line 98: the loop test; line 141 when it fails
WhileTest ==
    /\ pc = "while"
    /\ pc' = IF current_dt < end_dt THEN "day" ELSE "done"
    /\ result' = IF current_dt < end_dt THEN result ELSE Float(total_hours)
    /\ UNCHANGED <<op, city, start_dt, end_dt, current_dt, total_hours,
                   work_hours, key_result, hours_result>>

\* lines 101-112: a day that is not a working day
NonWorkingDay ==
    /\ pc = "day"
    /\ ~is_working_day(current_dt)
    /\ LET nxt == SkipNonWorkingDay(current_dt) IN
        /\ pc' = IF nxt.raised THEN "raised" ELSE "while"
        /\ result' = IF nxt.raised THEN OverflowError ELSE result
        /\ current_dt' = IF nxt.raised THEN current_dt ELSE nxt.dt
    /\ UNCHANGED <<op, city, start_dt, end_dt, total_hours, work_hours,
                   key_result, hours_result>>

\* line 114: the schedule lookup
LookupWorkingHours ==
    /\ pc = "day"
    /\ is_working_day(current_dt)
    /\ work_hours' = get_working_hours(current_dt, city)
    /\ pc' = "hours"
    /\ UNCHANGED <<op, city, start_dt, end_dt, current_dt, total_hours,
                   result, key_result, hours_result>>

\* lines 115-139: add the day's hours and move to the next midnight
AccumulateDay ==
    /\ pc = "hours"
    /\ LET nxt == NextMidnight(date(current_dt), 1) IN
        /\ total_hours' =
              IF work_hours = <<>> THEN total_hours
              ELSE total_hours + DayHours(current_dt, work_hours, start_dt, end_dt)
        /\ pc' = IF nxt.raised THEN "raised" ELSE "while"
        /\ result' = IF nxt.raised THEN OverflowError ELSE result
        /\ current_dt' = IF nxt.raised THEN current_dt ELSE nxt.dt
    /\ UNCHANGED <<op, city, start_dt, end_dt, work_hours, key_result,
                   hours_result>>

DtOrNone == Instants \cup {NoneDt}

CallCalculateReactionTime ==
    /\ pc = "idle"
    /\ \E a \in DtOrNone, s \in DtOrNone, c \in Cities :
        /\ start_dt' = a
        /\ end_dt' = s
        /\ city' = c
        /\ result' = calculate_reaction_time(a, s, c)
    /\ op' = "calculate_reaction_time"
    /\ pc' = "done"
    /\ UNCHANGED <<current_dt, total_hours, work_hours, key_result, hours_result>>

CallCalculateResolutionTime ==
    /\ pc = "idle"
    /\ \E s \in DtOrNone, e \in DtOrNone, c \in Cities :
        /\ start_dt' = s
        /\ end_dt' = e
        /\ city' = c
        /\ result' = calculate_resolution_time(s, e, c)
    /\ op' = "calculate_resolution_time"
    /\ pc' = "done"
    /\ UNCHANGED <<current_dt, total_hours, work_hours, key_result, hours_result>>

CallCalculateTotalTime ==
    /\ pc = "idle"
    /\ \E a \in DtOrNone, e \in DtOrNone, c \in Cities :
        /\ start_dt' = a
        /\ end_dt' = e
        /\ city' = c
        /\ result' = calculate_total_time(a, e, c)
    /\ op' = "calculate_total_time"
    /\ pc' = "done"
    /\ UNCHANGED <<current_dt, total_hours, work_hours, key_result, hours_result>>

Next ==
    \/ CallNormalizeCityName
    \/ CallGetWorkingHours
    \/ CallCalculateWorkingTime
    \/ WhileTest
    \/ NonWorkingDay
    \/ LookupWorkingHours
    \/ AccumulateDay
    \/ CallCalculateReactionTime
    \/ CallCalculateResolutionTime
    \/ CallCalculateTotalTime

Spec == Init /\ [][Next]_vars


\* ===================================================================
\* Properties
\* ===================================================================
Returned == pc = "done"
Ended == pc \in {"done", "raised"}
DerivedMetrics ==
    {"calculate_reaction_time", "calculate_resolution_time", "calculate_total_time"}

\* The window of city c on date d, as instants.
WindowOpen(d, c) == combine(d, get_working_hours(combine(d, time(0, 0)), c)[1])
WindowClose(d, c) == combine(d, get_working_hours(combine(d, time(0, 0)), c)[2])

\* Length of the intersection of [s, e] with the window of city c on date d;
\* nothing on a Saturday or a Sunday.
Intersection(s, e, d, c) ==
    IF weekday(combine(d, time(0, 0))) >= 5 THEN 0
    ELSE Max(0, Min(e, WindowClose(d, c)) - Max(s, WindowOpen(d, c)))

\* The sum of the intersections over the dates d..date(e).
RECURSIVE SumOfIntersections(_, _, _, _)
SumOfIntersections(s, e, d, c) ==
    IF d > date(e) THEN 0
    ELSE Intersection(s, e, d, c) + SumOfIntersections(s, e, d + 1, c)

\* C1: for every start < end and every location, calculate_working_time
\* returns the exact sum, over the Monday-Friday dates from start's date to
\* end's date, of the intersection of [start, end] with the day's window, and
\* the result is never negative.
C1_ExactSumOfIntersections ==
    (op = "calculate_working_time" /\ Ended /\ start_dt < end_dt)
        => /\ Returned
           /\ result = Float(SumOfIntersections(start_dt, end_dt, date(start_dt), city))
           /\ result.val >= 0

\* C1 restricted to the calls that return: whenever calculate_working_time
\* returns, it returns the exact sum of the intersections.
ExactSumWhenReturned ==
    (op = "calculate_working_time" /\ Returned /\ start_dt < end_dt)
        => /\ result = Float(SumOfIntersections(start_dt, end_dt, date(start_dt), city))
           /\ result.val >= 0

\* C2: additivity: for a <= b <= c, calculate_working_time(a, c) equals
\* calculate_working_time(a, b) + calculate_working_time(b, c), wherever b
\* falls.
C2_Additivity ==
    (op = "calculate_working_time" /\ Ended)
        => \A b \in Instants :
              (start_dt <= b /\ b <= end_dt)
                 => LET ab == calculate_working_time(start_dt, b, city)
                        bc == calculate_working_time(b, end_dt, city)
                    IN /\ ab.kind = "float"
                       /\ bc.kind = "float"
                       /\ result = Float(ab.val + bc.val)

\* C2 restricted to the calls that return: the three values add up whenever
\* all three calls return.
AdditivityWhenReturned ==
    (op = "calculate_working_time" /\ Returned)
        => \A b \in Instants :
              (start_dt <= b /\ b <= end_dt)
                 => LET ab == calculate_working_time(start_dt, b, city)
                        bc == calculate_working_time(b, end_dt, city)
                    IN (ab.kind = "float" /\ bc.kind = "float")
                          => result = Float(ab.val + bc.val)

\* C3: get_working_hours returns None whenever the day is a Saturday or a
\* Sunday, for every location; a window is returned only for Monday-Friday.
C3_NoneOnWeekend ==
    (op = "get_working_hours" /\ Returned)
        => /\ weekday(start_dt) >= 5 => hours_result = <<>>
           /\ hours_result # <<>> => weekday(start_dt) < 5

\* What C4 says normalize_city_name returns for name.
ClaimedNormalize(name) ==
    LET trimmed == strip(lower(name))
        matching == {k \in 1..Len(CITY_KEYS) :
                        \/ IsSubstr(CITY_KEYS[k], trimmed)
                        \/ IsSubstr(trimmed, CITY_KEYS[k])}
    IN IF trimmed \in CityKeySet THEN trimmed
       ELSE IF matching # {}
            THEN CITY_KEYS[CHOOSE k \in matching : \A j \in matching : k <= j]
            ELSE trimmed

\* C4 (as stated): for every input string, the empty string included,
\* normalize_city_name returns the key equal to the lowercased, trimmed name,
\* else the first key in insertion order that contains it or is contained in
\* it, else the lowercased, trimmed name.
C4_NormalizeEveryName ==
    (op = "normalize_city_name" /\ Returned)
        => key_result = ClaimedNormalize(city)

\* C4 (amended): the same for every non-empty input string (whitespace-only
\* strings included); the empty string is returned as the empty string.
C4_NormalizeNonEmptyName ==
    (op = "normalize_city_name" /\ Returned)
        => key_result = IF city = <<>> THEN <<>> ELSE ClaimedNormalize(city)

\* C4 witness: a name that contains two keys, the later key of the table
\* first; the earlier key of the table is returned.
C4_Witness ==
    /\ op = "normalize_city_name" /\ Returned
    /\ city = Sarov \o <<32>> \o Moskva
    /\ key_result = Moskva

\* C5: each derived metric returns None exactly when an instant is absent,
\* 0.0 when both are present and later <= earlier, and otherwise exactly the
\* outcome of calculate_working_time(earlier, later, location); it is never
\* negative.
C5_DerivedMetrics ==
    (op \in DerivedMetrics /\ Ended)
        => LET absent == start_dt = NoneDt \/ end_dt = NoneDt IN
           /\ (result = NoneVal) <=> absent
           /\ (~absent /\ end_dt <= start_dt) => result = Float(0)
           /\ (~absent /\ end_dt > start_dt)
                 => result = calculate_working_time(start_dt, end_dt, city)
           /\ result.kind = "float" => result.val >= 0

\* C5 witness: a reaction time over a span that holds working time.
C5_Witness ==
    /\ op = "calculate_reaction_time" /\ Returned
    /\ start_dt # NoneDt /\ end_dt # NoneDt /\ start_dt < end_dt
    /\ result.kind = "float" /\ result.val > 0

\* C6: calculate_working_time raises no error for any pair of representable
\* instants and any location.
C6_RaisesNoError ==
    op = "calculate_working_time" => pc # "raised"

\* C7: for a location that matches no configured key, calculate_working_time
\* gives the same outcome as for "Москва".
C7_UnknownCityUsesDefault ==
    (op = "calculate_working_time" /\ Ended
        /\ normalize_city_name(city) \notin CityKeySet)
        => result = calculate_working_time(start_dt, end_dt, MoskvaCapital)

\* C7 witness: an unknown city, a span that starts on a Friday and holds
\* working time.
C7_Witness ==
    /\ op = "calculate_working_time" /\ Returned
    /\ city = Kazan
    /\ weekday(start_dt) = 4
    /\ result.val > 0

\* C8: normalize_city_name is total and idempotent.
C8_NormalizeIdempotent ==
    (op = "normalize_city_name" /\ Returned)
        => normalize_city_name(key_result) = key_result

\* C8 witness: a padded, capitalised unknown name, returned lowercased and
\* trimmed.
C8_Witness ==
    /\ op = "normalize_city_name" /\ Returned
    /\ city = <<9, 32>> \o Kazan \o <<32>>
    /\ key_result = lower(Kazan)

\* C9: on every iteration of the loop, whichever branch is taken, the cursor
\* becomes midnight of a date strictly later than its previous date.
C9_CursorAdvancesEveryIteration ==
    [][((pc = "day" /\ pc' # "hours") \/ pc = "hours")
          => /\ date(current_dt') > date(current_dt)
             /\ current_dt' = combine(date(current_dt'), time(0, 0))]_vars

\* C9 restricted to the iterations that complete: the cursor becomes midnight
\* of a strictly later date, no later than the day after end's date.
CursorAdvancesWhenNotRaised ==
    [][(((pc = "day" /\ pc' # "hours") \/ pc = "hours") /\ pc' # "raised")
          => /\ date(current_dt') > date(current_dt)
             /\ current_dt' = combine(date(current_dt'), time(0, 0))
             /\ date(current_dt') <= date(end_dt) + 2]_vars

\* C10: inside calculate_working_time the schedule lookup is reached only with
\* the cursor on a Monday-Friday date, and total_hours grows only for a
\* Monday-Friday date.
C10_LookupOnlyOnWorkingDays ==
    [][/\ pc' = "hours" => /\ weekday(current_dt) < 5
                           /\ work_hours' = get_working_hours(current_dt, city)
       /\ total_hours' # total_hours => weekday(current_dt) < 5]_vars

\* C10 witness: the lookup for a Monday reached from a start on the Saturday
\* before it.
C10_Witness ==
    /\ pc = "hours"
    /\ weekday(start_dt) = 5
    /\ weekday(current_dt) = 0
    /\ work_hours # <<>>

=============================================================================
